---- MODULE Spec2Model ----
(***************************************************************************)
(* The daily work-plan scheduler of PlanPilot-Backend:                     *)
(* AnalysisService.generate_day_plan, log_completed_tasks and              *)
(* get_current_day_plan (src/app/service/analysis_service.py) and the      *)
(* endpoints that call them (src/app/routers/project.py).                  *)
(*                                                                         *)
(* Conventions.  A Python Optional is a sequence of length 0 (None) or 1.  *)
(* A calendar date is the number of days since 2024-01-01, a Monday, so    *)
(* date.weekday() is the date modulo 7.  A Python str that the code parses *)
(* is a sequence of one-character strings.  Hours are integers.            *)
(***************************************************************************)
EXTENDS Integers, Sequences, FiniteSets, TLC

VARIABLES
    developer_tasks,      \* Project.developer_tasks: the stored backlog
    base_hours_required,  \* Project.base_hours_required: read as daily_hours
    total_duration_days,  \* Project.total_duration_days: read as working_days_per_week
    start_date,           \* Project.start_date (Optional date)
    completion_log,       \* Project.completion_log (None is the empty list)
    current_day,          \* Project.current_day (Optional int)
    now,                  \* the date datetime.utcnow() returns
    response,             \* what the last call returned to its caller
    project_request,      \* the ProjectRequest the project was created with
    loop,                 \* the calendar loop of a generate_day_plan call (SpecLoop)
    session               \* the in-flight log_completed_tasks calls (SpecConc)

vars == <<developer_tasks, base_hours_required, total_duration_days, start_date,
          completion_log, current_day, now, response, project_request, loop,
          session>>

stored == <<developer_tasks, base_hours_required, total_duration_days, start_date>>

(***************************************************************************)
(* Bounds of the model.                                                    *)
(***************************************************************************)
MaxLog == 2      \* log_completed_tasks is not called on a longer log
MaxDay == 2      \* day_number arguments are 1..MaxDay
MaxNow == 1      \* the clock runs from date 0 to date MaxNow
MaxDate == 60    \* the last date a datetime can hold (datetime.max), scaled down

None == <<>>
Some(x) == <<x>>
IsNone(o) == o = <<>>

(***************************************************************************)
(* extract_int: the first run of decimal digits of str(value), the value   *)
(* itself for an int, the default for a falsy value or when no digit is    *)
(* found.                                                                  *)
(***************************************************************************)
Digits == <<"0", "1", "2", "3", "4", "5", "6", "7", "8", "9">>

IsDigit(c) == \E i \in 1..Len(Digits) : Digits[i] = c

DigitVal(c) == (CHOOSE i \in 1..Len(Digits) : Digits[i] = c) - 1

NoneValue == [kind |-> "none", n |-> 0, s |-> <<>>]
IntValue(k) == [kind |-> "int", n |-> k, s |-> <<>>]
StrValue(chars) == [kind |-> "str", n |-> 0, s |-> chars]

RECURSIVE DigitRun(_, _, _)
\* int(match.group()) for the run of digits of s that starts at index i
DigitRun(s, i, acc) ==
    IF i <= Len(s) /\ IsDigit(s[i])
    THEN DigitRun(s, i + 1, 10 * acc + DigitVal(s[i]))
    ELSE acc

Falsy(value) ==
    \/ value.kind = "none"
    \/ value.kind = "int" /\ value.n = 0
    \/ value.kind = "str" /\ value.s = <<>>

extract_int(value, default) ==
    IF Falsy(value) THEN default
    ELSE IF value.kind = "int" THEN value.n
    ELSE IF \E i \in 1..Len(value.s) : IsDigit(value.s[i])
         THEN DigitRun(value.s,
                       CHOOSE i \in 1..Len(value.s) :
                           /\ IsDigit(value.s[i])
                           /\ \A j \in 1..(i - 1) : ~IsDigit(value.s[j]),
                       0)
         ELSE default

DefaultDailyHours == 4
DefaultWorkingDays == 5

daily_hours_of(bhr) == extract_int(bhr, DefaultDailyHours)
working_days_of(tdd) == extract_int(tdd, DefaultWorkingDays)

(***************************************************************************)
(* The backlog.  A stored entry is a plain string or a dict with a "task"  *)
(* and an optional "estimated_hours".                                      *)
(***************************************************************************)
StrTask(name) == [kind |-> "str", task |-> name, est |-> None]
DictTask(name, hours) == [kind |-> "dict", task |-> name, est |-> Some(hours)]
DictTaskNoHours(name) == [kind |-> "dict", task |-> name, est |-> None]

\* lines 245-250: None is the empty list; a list whose first entry is a str is
\* upgraded entry by entry (a backlog stored as JSON text is taken as decoded)
ParseTasks(raw) ==
    IF raw # <<>> /\ raw[1].kind = "str"
    THEN [i \in 1..Len(raw) |->
            [kind |-> "dict",
             task |-> IF raw[i].kind = "str" THEN raw[i].task ELSE "<dict>",
             est |-> Some(1)]]
    ELSE raw

\* t['task'] raises TypeError on a str entry; a dict used as the "task" of an
\* upgraded entry raises TypeError (unhashable) at the set-membership test
TasksRaise(raw) ==
    IF raw # <<>> /\ raw[1].kind = "str"
    THEN \E i \in 1..Len(raw) : raw[i].kind # "str"
    ELSE \E i \in 1..Len(raw) : raw[i].kind # "dict"

\* t.get('estimated_hours', 1)
EstOf(t) == IF IsNone(t.est) THEN 1 ELSE t.est[1]

(***************************************************************************)
(* Dates.  strftime renders a date; the model's dates lie in 2024.         *)
(***************************************************************************)
MonthLengths == <<31, 29, 31, 30, 31, 30, 31, 31, 30, 31, 30, 31>>

MonthNames == <<"January", "February", "March", "April", "May", "June", "July",
                "August", "September", "October", "November", "December">>

WeekdayNames == <<"Monday", "Tuesday", "Wednesday", "Thursday", "Friday",
                  "Saturday", "Sunday">>

\* date.weekday(): Monday is 0
weekday(d) == d % 7

RECURSIVE MonthDay(_, _)
\* <<month, day of month>> of the date that is `rest` days after the 1st of month m
MonthDay(rest, m) ==
    IF m < 12 /\ rest >= MonthLengths[m]
    THEN MonthDay(rest - MonthLengths[m], m + 1)
    ELSE <<m, rest + 1>>

\* strftime("%Y-%m-%d")
IsoDate(d) == <<2024, MonthDay(d, 1)[1], MonthDay(d, 1)[2]>>

\* strftime('%A, %B %d, %Y')
LongDate(d) ==
    <<WeekdayNames[weekday(d) + 1], MonthNames[MonthDay(d, 1)[1]], MonthDay(d, 1)[2], 2024>>

(***************************************************************************)
(* Lines 255-271: the start date is the argument, else the stored one,     *)
(* else datetime.utcnow().                                                 *)
(***************************************************************************)
ResolveStart(start_arg, stored_start, clock) ==
    IF ~IsNone(start_arg) THEN start_arg[1]
    ELSE IF ~IsNone(stored_start) THEN stored_start[1]
    ELSE clock

(***************************************************************************)
(* Lines 272-278: only working days are counted.                           *)
(***************************************************************************)
RECURSIVE AdvanceEveryDay(_, _, _, _)
\* AdvanceDays counting every calendar day, working or not
AdvanceEveryDay(current_date, days_added, day_number, working_days_per_week) ==
    IF days_added < day_number
    THEN AdvanceEveryDay(current_date + 1, days_added + 1, day_number,
                         working_days_per_week)
    ELSE current_date

RECURSIVE AdvanceDays(_, _, _, _)
AdvanceDays(current_date, days_added, day_number, working_days_per_week) ==
    IF days_added < day_number
    THEN AdvanceDays(current_date + 1,
                     IF weekday(current_date + 1) < working_days_per_week
                     THEN days_added + 1 ELSE days_added,
                     day_number, working_days_per_week)
    ELSE current_date

\* no date is ever counted when no weekday is below working_days_per_week: the
\* loop steps on until current_date + timedelta(days=1) leaves the range of
\* datetime and raises OverflowError
CalendarLoops(day_number, working_days_per_week) ==
    day_number > 1 /\ working_days_per_week <= 0

\* date_for_day counting the start date as day 1 only when it is a working day
date_for_day_working_start(start_dt, day_number, working_days_per_week) ==
    AdvanceDays(start_dt,
                IF weekday(start_dt) < working_days_per_week THEN 1 ELSE 0,
                day_number, working_days_per_week)

date_for_day(start_dt, day_number, working_days_per_week) ==
    AdvanceDays(start_dt, 1, day_number, working_days_per_week)

(***************************************************************************)
(* Lines 280-288: the scan of the whole completion log.                    *)
(***************************************************************************)
RECURSIVE Flatten(_)
Flatten(seqs) == IF seqs = <<>> THEN <<>> ELSE Head(seqs) \o Flatten(Tail(seqs))

completed_tasks_of(log) ==
    UNION {{log[i].completed_tasks[j].task : j \in 1..Len(log[i].completed_tasks)} :
             i \in 1..Len(log)}

carryover_of(log) == Flatten([i \in 1..Len(log) |-> log[i].carryover])

(***************************************************************************)
(* Lines 290-309: the greedy single pass over the pending tasks.           *)
(***************************************************************************)
\* pending_tasks_of without the filter on completed_tasks
pending_tasks_unfiltered(tasks, completed_tasks) == tasks

pending_tasks_of(tasks, completed_tasks) ==
    LET Pending(t) == t.task \notin completed_tasks
    IN  SelectSeq(tasks, Pending)

LeftNote(task, hours) == [task |-> task, hours |-> hours, left |-> TRUE]
FullNote(task, hours) == [task |-> task, hours |-> hours, left |-> FALSE]

\* the note's text (the f-strings of lines 305 and 308) as its pieces
NoteText(note) ==
    <<note.task, " (", note.hours,
      IF note.left THEN " hour(s) left)" ELSE " hour(s))">>

RECURSIVE AssignTasksWholeSlice(_, _, _, _, _)
\* AssignTasks with the task that does not fit appended with its whole estimate
AssignTasksWholeSlice(pending, i, hours_left, today_tasks, carryover_today) ==
    IF i > Len(pending)
    THEN [tasks |-> today_tasks, carryover_today |-> carryover_today,
          hours_left |-> hours_left]
    ELSE LET t == pending[i]
             est == EstOf(t)
         IN  IF est <= hours_left
             THEN AssignTasksWholeSlice(pending, i + 1, hours_left - est,
                     Append(today_tasks, [task |-> t.task, estimated_hours |-> est]),
                     carryover_today)
             ELSE IF hours_left > 0
             THEN AssignTasksWholeSlice(pending, i + 1, 0,
                     Append(today_tasks, [task |-> t.task, estimated_hours |-> est]),
                     Append(carryover_today, LeftNote(t.task, est - hours_left)))
             ELSE AssignTasksWholeSlice(pending, i + 1, hours_left, today_tasks,
                     Append(carryover_today, FullNote(t.task, est)))

RECURSIVE AssignTasksNoSlice(_, _, _, _, _)
\* AssignTasks without the partial slice: a task that does not fit is only noted
AssignTasksNoSlice(pending, i, hours_left, today_tasks, carryover_today) ==
    IF i > Len(pending)
    THEN [tasks |-> today_tasks, carryover_today |-> carryover_today,
          hours_left |-> hours_left]
    ELSE LET t == pending[i]
             est == EstOf(t)
         IN  IF est <= hours_left
             THEN AssignTasksNoSlice(pending, i + 1, hours_left - est,
                     Append(today_tasks, [task |-> t.task, estimated_hours |-> est]),
                     carryover_today)
             ELSE AssignTasksNoSlice(pending, i + 1, hours_left, today_tasks,
                     Append(carryover_today, FullNote(t.task, est)))

RECURSIVE AssignTasksStopAtZero(_, _, _, _, _)
\* AssignTasks leaving the loop once the budget is used up: the tasks behind
\* the last planned one get no note
AssignTasksStopAtZero(pending, i, hours_left, today_tasks, carryover_today) ==
    IF i > Len(pending) \/ (i > 1 /\ hours_left = 0)
    THEN [tasks |-> today_tasks, carryover_today |-> carryover_today,
          hours_left |-> hours_left]
    ELSE LET t == pending[i]
             est == EstOf(t)
         IN  IF est <= hours_left
             THEN AssignTasksStopAtZero(pending, i + 1, hours_left - est,
                     Append(today_tasks, [task |-> t.task, estimated_hours |-> est]),
                     carryover_today)
             ELSE IF hours_left > 0
             THEN AssignTasksStopAtZero(pending, i + 1, 0,
                     Append(today_tasks, [task |-> t.task, estimated_hours |-> hours_left]),
                     Append(carryover_today, LeftNote(t.task, est - hours_left)))
             ELSE AssignTasksStopAtZero(pending, i + 1, hours_left, today_tasks,
                     Append(carryover_today, FullNote(t.task, est)))

RECURSIVE AssignTasksNoteEstimate(_, _, _, _, _)
\* AssignTasks whose note for a sliced task states the task's whole estimate
AssignTasksNoteEstimate(pending, i, hours_left, today_tasks, carryover_today) ==
    IF i > Len(pending)
    THEN [tasks |-> today_tasks, carryover_today |-> carryover_today,
          hours_left |-> hours_left]
    ELSE LET t == pending[i]
             est == EstOf(t)
         IN  IF est <= hours_left
             THEN AssignTasksNoteEstimate(pending, i + 1, hours_left - est,
                     Append(today_tasks, [task |-> t.task, estimated_hours |-> est]),
                     carryover_today)
             ELSE IF hours_left > 0
             THEN AssignTasksNoteEstimate(pending, i + 1, 0,
                     Append(today_tasks, [task |-> t.task, estimated_hours |-> hours_left]),
                     Append(carryover_today, LeftNote(t.task, est)))
             ELSE AssignTasksNoteEstimate(pending, i + 1, hours_left, today_tasks,
                     Append(carryover_today, FullNote(t.task, est)))

RECURSIVE AssignTasksStrictFit(_, _, _, _, _)
\* AssignTasks taking a task whole only when its estimate is below the hours left
AssignTasksStrictFit(pending, i, hours_left, today_tasks, carryover_today) ==
    IF i > Len(pending)
    THEN [tasks |-> today_tasks, carryover_today |-> carryover_today,
          hours_left |-> hours_left]
    ELSE LET t == pending[i]
             est == EstOf(t)
         IN  IF est < hours_left
             THEN AssignTasksStrictFit(pending, i + 1, hours_left - est,
                     Append(today_tasks, [task |-> t.task, estimated_hours |-> est]),
                     carryover_today)
             ELSE IF hours_left > 0
             THEN AssignTasksStrictFit(pending, i + 1, 0,
                     Append(today_tasks, [task |-> t.task, estimated_hours |-> hours_left]),
                     Append(carryover_today, LeftNote(t.task, est - hours_left)))
             ELSE AssignTasksStrictFit(pending, i + 1, hours_left, today_tasks,
                     Append(carryover_today, FullNote(t.task, est)))

RECURSIVE AssignTasks(_, _, _, _, _)
AssignTasks(pending, i, hours_left, today_tasks, carryover_today) ==
    IF i > Len(pending)
    THEN [tasks |-> today_tasks, carryover_today |-> carryover_today,
          hours_left |-> hours_left]
    ELSE LET t == pending[i]
             est == EstOf(t)
         IN  IF est <= hours_left
             THEN AssignTasks(pending, i + 1, hours_left - est,
                     Append(today_tasks, [task |-> t.task, estimated_hours |-> est]),
                     carryover_today)
             ELSE IF hours_left > 0
             THEN AssignTasks(pending, i + 1, 0,
                     Append(today_tasks, [task |-> t.task, estimated_hours |-> hours_left]),
                     Append(carryover_today, LeftNote(t.task, est - hours_left)))
             ELSE AssignTasks(pending, i + 1, hours_left, today_tasks,
                     Append(carryover_today, FullNote(t.task, est)))

build(pending, daily_hours) == AssignTasks(pending, 1, daily_hours, <<>>, <<>>)

(***************************************************************************)
(* generate_day_plan (lines 231-318) as a function of the stored project   *)
(* p, its arguments and the clock.  The outcome is the returned dict       *)
(* ("ok") or the exception raised: "not_found", "error", or "overflow"     *)
(* when the calendar loop runs out of dates.                               *)
(***************************************************************************)
NoPlan ==
    [day |-> <<>>, date |-> <<>>, planned_hours |-> 0, tasks |-> <<>>,
     carryover_from_previous_days |-> <<>>, message |-> <<>>]

Outcome(status, plan) == [status |-> status, plan |-> plan]

\* lines 290-309 on the stored project: today's tasks, today's notes, hours left
build_of(p) ==
    build(pending_tasks_of(ParseTasks(p.developer_tasks),
                           completed_tasks_of(p.completion_log)),
          daily_hours_of(p.base_hours_required))

\* generate_day_plan returning the notes of today's pass where it returns the
\* notes read from the log
generate_day_plan_today_notes(found, p, start_arg, day_number, clock) ==
    LET daily_hours == daily_hours_of(p.base_hours_required)
        working_days_per_week == working_days_of(p.total_duration_days)
        start_dt == ResolveStart(start_arg, p.start_date, clock)
        current_date == date_for_day(start_dt, day_number, working_days_per_week)
    IN  IF ~found THEN Outcome("not_found", NoPlan)
        ELSE IF CalendarLoops(day_number, working_days_per_week)
        THEN Outcome("overflow", NoPlan)
        ELSE IF TasksRaise(p.developer_tasks) THEN Outcome("error", NoPlan)
        ELSE Outcome("ok",
                [day |-> <<"Day", day_number>>,
                 date |-> IsoDate(current_date),
                 planned_hours |-> daily_hours,
                 tasks |-> build_of(p).tasks,
                 carryover_from_previous_days |-> build_of(p).carryover_today,
                 message |-> <<"Plan for Day", day_number>> \o LongDate(current_date)])

generate_day_plan(found, p, start_arg, day_number, clock) ==
    LET daily_hours == daily_hours_of(p.base_hours_required)
        working_days_per_week == working_days_of(p.total_duration_days)
        start_dt == ResolveStart(start_arg, p.start_date, clock)
        current_date == date_for_day(start_dt, day_number, working_days_per_week)
    IN  IF ~found THEN Outcome("not_found", NoPlan)
        ELSE IF CalendarLoops(day_number, working_days_per_week)
        THEN Outcome("overflow", NoPlan)
        ELSE IF TasksRaise(p.developer_tasks) THEN Outcome("error", NoPlan)
        ELSE Outcome("ok",
                [day |-> <<"Day", day_number>>,
                 date |-> IsoDate(current_date),
                 planned_hours |-> daily_hours,
                 tasks |-> build_of(p).tasks,
                 carryover_from_previous_days |-> carryover_of(p.completion_log),
                 message |-> <<"Plan for Day", day_number>> \o LongDate(current_date)])

(***************************************************************************)
(* log_completed_tasks (lines 320-334): the entry appended and the pointer *)
(* written.                                                                *)
(***************************************************************************)
\* LogEntry with the day's carryover filled in instead of the empty placeholder
LogEntryWithCarryover(day_number, completed_hours) ==
    [day |-> day_number, completed_hours |-> completed_hours,
     completed_tasks |-> <<>>, carryover |-> <<FullNote("Build", 10)>>]

\* LogEntry recording the tasks named in completed_hours as completed
LogEntryWithCompleted(day_number, completed_hours) ==
    LET done == {[task |-> pair[1]] : pair \in completed_hours}
    IN  [day |-> day_number, completed_hours |-> completed_hours,
         completed_tasks |->
            CHOOSE q \in [1..Cardinality(done) -> done] :
                {q[i] : i \in 1..Cardinality(done)} = done,
         carryover |-> <<>>]

LogEntry(day_number, completed_hours) ==
    [day |-> day_number, completed_hours |-> completed_hours,
     completed_tasks |-> <<>>, carryover |-> <<>>]

\* AppendedLog starting from a fresh list instead of the stored one
ReplacedLog(log, day_number, completed_hours) ==
    <<[day |-> day_number, completed_hours |-> completed_hours,
       completed_tasks |-> <<>>, carryover |-> <<>>]>>

AppendedLog(log, day_number, completed_hours) ==
    Append(log, LogEntry(day_number, completed_hours))

\* NextPointer without the increment
SamePointer(day_number) == Some(day_number)

NextPointer(day_number) == Some(day_number + 1)

\* project.current_day or 1
CurrentDayOr1(cd) == IF IsNone(cd) \/ cd[1] = 0 THEN 1 ELSE cd[1]

(***************************************************************************)
(* The stored project and the requests.                                    *)
(***************************************************************************)
Project ==
    [developer_tasks |-> developer_tasks,
     base_hours_required |-> base_hours_required,
     total_duration_days |-> total_duration_days,
     start_date |-> start_date,
     completion_log |-> completion_log,
     current_day |-> current_day]

StoredIds == {1}
ProjectIds == {1, 2}
\* Found with the query's filter on the id left out: any row is returned
FoundAny(project_id) == project_id \in ProjectIds

Found(project_id) == project_id \in StoredIds

DayNumbers == 1..MaxDay
StartArgs == {None, Some(0)}

\* TaskLogRequest.completed_hours: task name -> hours, as a set of pairs
HoursPayloads == {{}, {<<"Design", 5>>}}

Response(op, project_id, start_arg, day_number, completed_hours, outcome) ==
    [op |-> op, project_id |-> project_id, start_date |-> start_arg,
     day_number |-> day_number, completed_hours |-> completed_hours,
     status |-> outcome.status, plan |-> outcome.plan]

NoResponse == Response("none", 0, None, 0, {}, Outcome("none", NoPlan))

(***************************************************************************)
(* Stored projects the model starts from.  developer_tasks,                *)
(* base_hours_required, total_duration_days and start_date are written     *)
(* when the project is created and by nothing in the scheduler.            *)
(***************************************************************************)
ScenarioProject ==
    [developer_tasks |-> <<DictTask("Design", 5), DictTask("Build", 10), DictTask("Test", 3)>>,
     base_hours_required |-> StrValue(<<"4", " ", "h">>),
     total_duration_days |-> StrValue(<<"5", " ", "d">>),
     start_date |-> None]

LegacyProject ==
    [developer_tasks |-> <<StrTask("Design"), StrTask("Build")>>,
     base_hours_required |-> StrValue(<<"N", "/", "A">>),
     total_duration_days |-> NoneValue,
     start_date |-> Some(2)]

MixedProject ==
    [developer_tasks |-> <<DictTask("Design", 2), StrTask("Build")>>,
     base_hours_required |-> IntValue(3),
     total_duration_days |-> IntValue(6),
     start_date |-> None]

NoWorkingDayProject ==
    [developer_tasks |-> <<DictTask("Design", 0), DictTaskNoHours("Build")>>,
     base_hours_required |-> StrValue(<<"0", "h">>),
     total_duration_days |-> StrValue(<<"0", " ", "d">>),
     start_date |-> Some(5)]

SampleProjects == {ScenarioProject, LegacyProject, MixedProject, NoWorkingDayProject}

Sessions == {"a", "b"}

IdleSession ==
    [pc |-> "idle", day_number |-> 0, completed_hours |-> {}, log |-> <<>>,
     current_day |-> None]

\* ProjectRequest with the defaults of its fields (schemas.py lines 49-50)
DefaultRequest == [daily_hours |-> 8, working_days_per_week |-> 5]

\* no generate_day_plan call is inside its calendar loop
IdleLoop == [pc |-> "idle", current_date |-> 0, days_added |-> 0, day_number |-> 0]

InitStored(p) ==
    /\ developer_tasks = p.developer_tasks
    /\ base_hours_required = p.base_hours_required
    /\ total_duration_days = p.total_duration_days
    /\ start_date = p.start_date

Init ==
    /\ \E p \in SampleProjects : InitStored(p)
    /\ completion_log = <<>>
    /\ current_day = None
    /\ now = 0
    /\ response = NoResponse
    /\ session = [s \in Sessions |-> IdleSession]
    /\ loop = IdleLoop
    /\ project_request = DefaultRequest

(***************************************************************************)
(* The operations, each one whole call.                                    *)
(***************************************************************************)
\* AnalysisService.generate_day_plan(project_id, start_date, day_number)
GenerateDayPlan(project_id, start_arg, day_number) ==
    /\ response' = Response("generate_day_plan", project_id, start_arg, day_number, {},
                       generate_day_plan(Found(project_id), Project, start_arg,
                                         day_number, now))
    /\ UNCHANGED <<stored, project_request, loop, completion_log, current_day, now,
                 session>>

\* LogCompletedTasks taking the tasks named in completed_hours off the stored
\* backlog
LogCompletedTasksPruning(project_id, day_number, completed_hours) ==
    LET Open(t) == \A pair \in completed_hours : pair[1] # t.task
    IN  /\ Len(completion_log) < MaxLog
        /\ IF Found(project_id)
           THEN /\ completion_log' = AppendedLog(completion_log, day_number, completed_hours)
                /\ current_day' = NextPointer(day_number)
                /\ developer_tasks' = SelectSeq(developer_tasks, Open)
                /\ response' = Response("log_completed_tasks", project_id, None, day_number,
                                   completed_hours, Outcome("ok", NoPlan))
           ELSE /\ response' = Response("log_completed_tasks", project_id, None, day_number,
                                   completed_hours, Outcome("not_found", NoPlan))
                /\ UNCHANGED <<developer_tasks, completion_log, current_day>>
        /\ UNCHANGED <<base_hours_required, total_duration_days, start_date,
                       project_request, loop, now, session>>

\* AnalysisService.log_completed_tasks(project_id, day_number, completed_hours);
\* db.commit() stores the list assigned at line 331 and the pointer of line 332
LogCompletedTasks(project_id, day_number, completed_hours) ==
    /\ Len(completion_log) < MaxLog
    /\ IF Found(project_id)
       THEN /\ completion_log' = AppendedLog(completion_log, day_number, completed_hours)
            /\ current_day' = NextPointer(day_number)
            /\ response' = Response("log_completed_tasks", project_id, None, day_number,
                               completed_hours, Outcome("ok", NoPlan))
       ELSE /\ response' = Response("log_completed_tasks", project_id, None, day_number,
                               completed_hours, Outcome("not_found", NoPlan))
            /\ UNCHANGED <<completion_log, current_day>>
    /\ UNCHANGED <<stored, project_request, loop, now, session>>

\* GetCurrentDayPlan writing the pointer it read (current_day or 1) back
GetCurrentDayPlanStoring(project_id) ==
    /\ response' = Response("get_current_day_plan", project_id, None,
                       CurrentDayOr1(current_day), {},
                       generate_day_plan(Found(project_id), Project, None,
                                         CurrentDayOr1(current_day), now))
    /\ current_day' = IF Found(project_id) THEN Some(CurrentDayOr1(current_day))
                      ELSE current_day
    /\ UNCHANGED <<stored, project_request, loop, completion_log, now, session>>

\* AnalysisService.get_current_day_plan(project_id)
GetCurrentDayPlan(project_id) ==
    /\ response' = Response("get_current_day_plan", project_id, None,
                       CurrentDayOr1(current_day), {},
                       generate_day_plan(Found(project_id), Project, None,
                                         CurrentDayOr1(current_day), now))
    /\ UNCHANGED <<stored, project_request, loop, completion_log, current_day, now,
                 session>>

\* POST /projects/start-project
StartProjectPlan(project_id, start_arg) ==
    /\ ~IsNone(start_arg)
    /\ response' = Response("start_project_plan", project_id, start_arg, 1, {},
                       generate_day_plan(Found(project_id), Project, start_arg, 1, now))
    /\ UNCHANGED <<stored, project_request, loop, completion_log, current_day, now,
                 session>>

\* POST /projects/log-tasks: log_completed_tasks, then generate_day_plan for the
\* next day on what it stored
LogDailyTasks(project_id, day_number, completed_hours) ==
    /\ Len(completion_log) < MaxLog
    /\ IF Found(project_id)
       THEN /\ completion_log' = AppendedLog(completion_log, day_number, completed_hours)
            /\ current_day' = NextPointer(day_number)
            /\ response' = Response("log_daily_tasks", project_id, None, day_number,
                               completed_hours,
                               generate_day_plan(TRUE,
                                   [Project EXCEPT !.completion_log = completion_log',
                                                   !.current_day = current_day'],
                                   None, day_number + 1, now))
       ELSE /\ response' = Response("log_daily_tasks", project_id, None, day_number,
                               completed_hours, Outcome("not_found", NoPlan))
            /\ UNCHANGED <<completion_log, current_day>>
    /\ UNCHANGED <<stored, project_request, loop, now, session>>

\* a day passes: datetime.utcnow() returns the next date
ClockTick ==
    /\ now < MaxNow
    /\ now' = now + 1
    /\ UNCHANGED <<stored, project_request, loop, completion_log, current_day, response,
                 session>>

Next ==
    \/ \E project_id \in ProjectIds, start_arg \in StartArgs, day_number \in DayNumbers :
           GenerateDayPlan(project_id, start_arg, day_number)
    \/ \E project_id \in ProjectIds, day_number \in DayNumbers,
          completed_hours \in HoursPayloads :
           LogCompletedTasks(project_id, day_number, completed_hours)
    \/ \E project_id \in ProjectIds : GetCurrentDayPlan(project_id)
    \/ \E project_id \in ProjectIds, start_arg \in StartArgs :
           StartProjectPlan(project_id, start_arg)
    \/ \E project_id \in ProjectIds, day_number \in DayNumbers,
          completed_hours \in HoursPayloads :
           LogDailyTasks(project_id, day_number, completed_hours)
    \/ ClockTick

Spec == Init /\ [][Next]_vars

(***************************************************************************)
(* SpecPlan: generate_day_plan as a function of its inputs.  The stored    *)
(* backlog, the stored hours field and the stored log are drawn from       *)
(* bounded sets; the log may hold entries written by hand ("You can expand *)
(* this to log actual tasks"), with completed_tasks and carryover filled.  *)
(***************************************************************************)
MaxTasks == 2    \* a drawn backlog has at most MaxTasks entries
MaxHours == 3    \* a drawn estimated_hours is 0..MaxHours

TaskNames == {"Design", "Build"}

TaskEntries ==
    {DictTask(name, hours) : name \in TaskNames, hours \in 0..MaxHours}
        \cup {StrTask(name) : name \in TaskNames}
        \cup {DictTaskNoHours(name) : name \in TaskNames}

Backlogs == UNION {[1..n -> TaskEntries] : n \in 0..MaxTasks}

HoursValues ==
    {NoneValue, StrValue(<<"N", "/", "A">>), StrValue(<<"0", "h">>),
     StrValue(<<"h", "2", "h", "9">>), IntValue(3)}

HandWrittenEntry ==
    [day |-> 1, completed_hours |-> {<<"Design", 5>>},
     completed_tasks |-> <<[task |-> "Design"]>>,
     carryover |-> <<LeftNote("Build", 1)>>]

Logs == {<<>>, <<LogEntry(1, {})>>, <<HandWrittenEntry>>, <<LogEntry(2, {}), HandWrittenEntry>>}

InitPlan ==
    /\ developer_tasks \in Backlogs
    /\ base_hours_required \in HoursValues
    /\ total_duration_days = StrValue(<<"5", " ", "d">>)
    /\ start_date = Some(0)
    /\ completion_log \in Logs
    /\ current_day = None
    /\ now = 0
    /\ response = NoResponse
    /\ session = [s \in Sessions |-> IdleSession]
    /\ loop = IdleLoop
    /\ project_request = DefaultRequest

NextPlan ==
    \E day_number \in DayNumbers : GenerateDayPlan(1, None, day_number)

SpecPlan == InitPlan /\ [][NextPlan]_vars

(***************************************************************************)
(* SpecCal: the calendar of generate_day_plan (lines 253-278) for start     *)
(* dates on every weekday, the values of total_duration_days that give     *)
(* every kind of week, and day numbers that reach into the second week.    *)
(***************************************************************************)
MaxCalDay == 6
MaxStart == 6

CalDayNumbers == 1..MaxCalDay

WorkingDayValues ==
    {NoneValue,
     StrValue(<<"5", " ", "d">>),
     StrValue(<<"0", " ", "d">>),
     IntValue(1),
     IntValue(3),
     IntValue(7),
     StrValue(<<"3", "0", " ", "d">>)}

InitCal ==
    /\ developer_tasks = ScenarioProject.developer_tasks
    /\ base_hours_required = ScenarioProject.base_hours_required
    /\ total_duration_days \in WorkingDayValues
    /\ start_date \in {Some(d) : d \in 0..MaxStart}
    /\ completion_log = <<>>
    /\ current_day = None
    /\ now = 0
    /\ response = NoResponse
    /\ session = [s \in Sessions |-> IdleSession]
    /\ loop = IdleLoop
    /\ project_request = DefaultRequest

NextCal ==
    \E start_arg \in StartArgs, day_number \in CalDayNumbers :
        GenerateDayPlan(1, start_arg, day_number)

SpecCal == InitCal /\ [][NextCal]_vars

(***************************************************************************)
(* SpecLoop: the calendar loop of lines 272-278 one pass at a time.  A     *)
(* call that is in the loop goes on running, so the passes are weakly      *)
(* fair.  datetime + timedelta raises OverflowError past datetime.max,     *)
(* which is MaxDate here.                                                  *)
(***************************************************************************)
\* lines 273-274: current_date = start_dt, days_added = 1
EnterLoop(day_number) ==
    /\ loop.pc = "idle"
    /\ loop' = [pc |-> "loop",
                current_date |-> ResolveStart(None, start_date, now),
                days_added |-> 1,
                day_number |-> day_number]
    /\ UNCHANGED <<stored, project_request, completion_log, current_day, now,
                   response, session>>

\* lines 275-278: one pass of the while loop
LoopStep ==
    /\ loop.pc = "loop"
    /\ loop.days_added < loop.day_number
    /\ loop' =
         IF loop.current_date >= MaxDate
         THEN [loop EXCEPT !.pc = "overflow"]
         ELSE [loop EXCEPT
                 !.current_date = loop.current_date + 1,
                 !.days_added =
                     IF weekday(loop.current_date + 1)
                          < working_days_of(total_duration_days)
                     THEN loop.days_added + 1 ELSE loop.days_added]
    /\ UNCHANGED <<stored, project_request, completion_log, current_day, now,
                   response, session>>

\* line 275: the loop condition is false
LoopExit ==
    /\ loop.pc = "loop"
    /\ loop.days_added >= loop.day_number
    /\ loop' = [loop EXCEPT !.pc = "done"]
    /\ UNCHANGED <<stored, project_request, completion_log, current_day, now,
                   response, session>>

NextLoop ==
    \/ \E day_number \in CalDayNumbers : EnterLoop(day_number)
    \/ LoopStep
    \/ LoopExit

SpecLoop == InitCal /\ [][NextLoop]_vars /\ WF_vars(LoopStep \/ LoopExit)

(***************************************************************************)
(* SpecLogDay: POST /projects/log-tasks followed by GET                     *)
(* /projects/current-day-plan, at one reading of the clock.                *)
(* TaskLogRequest.day_number is an int with no constraint (schemas.py line *)
(* 117) and log_completed_tasks has no check on it, so the day numbers     *)
(* drawn include 0 and -1.                                                 *)
(***************************************************************************)
LogDayNumbers == -1..MaxDay

NextLogDay ==
    \/ \E project_id \in ProjectIds, day_number \in LogDayNumbers,
          completed_hours \in HoursPayloads :
            LogDailyTasks(project_id, day_number, completed_hours)
    \/ \E project_id \in ProjectIds : GetCurrentDayPlan(project_id)

SpecLogDay == Init /\ [][NextLogDay]_vars

(***************************************************************************)
(* SpecCreate: the project as analyze_project creates it (lines 21-50,     *)
(* 438-470) and the plans made from it.  The request's daily_hours and     *)
(* working_days_per_week go into the prompts (lines 30, 42-43) and nowhere *)
(* else; the record stores the analysis the model answered with, whose     *)
(* time_estimation values are strings of its choice.                       *)
(***************************************************************************)
Requests ==
    [daily_hours : {2, 4, 8}, working_days_per_week : {3, 5, 7}]

\* a project whose time_estimation follows the prompt's format: "120 h" base
\* hours, "30 d" working days
EstimatedProject ==
    [developer_tasks |-> <<DictTask("Design", 5), DictTask("Build", 10)>>,
     base_hours_required |-> StrValue(<<"1", "2", "0", " ", "h">>),
     total_duration_days |-> StrValue(<<"3", "0", " ", "d">>),
     start_date |-> Some(0)]

InitCreate ==
    /\ project_request \in Requests
    /\ \E p \in SampleProjects \cup {EstimatedProject} : InitStored(p)
    /\ completion_log = <<>>
    /\ current_day = None
    /\ now = 0
    /\ response = NoResponse
    /\ session = [s \in Sessions |-> IdleSession]
    /\ loop = IdleLoop

NextCreate ==
    \/ \E start_arg \in StartArgs : StartProjectPlan(1, start_arg)
    \/ \E day_number \in DayNumbers : GenerateDayPlan(1, None, day_number)

SpecCreate == InitCreate /\ [][NextCreate]_vars

(***************************************************************************)
(* SpecConc: two log_completed_tasks calls on the same project, each with  *)
(* its own database session (get_db gives every request one).  A call      *)
(* reads the row (line 321), appends to the list it read and sets the      *)
(* pointer on its own copy (lines 324-332), and db.commit() (line 333)     *)
(* sends the UPDATE, which holds the row until the transaction commits,    *)
(* and commits.  Nothing compares the stored log with the one read.        *)
(***************************************************************************)
\* line 321: the row is read
ReadLog(s, day_number, completed_hours) ==
    /\ session[s].pc = "idle"
    /\ session' = [session EXCEPT ![s] =
            [pc |-> "read", day_number |-> day_number,
             completed_hours |-> completed_hours,
             log |-> completion_log, current_day |-> current_day]]
    /\ UNCHANGED <<stored, project_request, loop, completion_log, current_day, now,
                 response>>

\* lines 324-332: the entry is appended and the pointer set, in the session
AppendEntry(s) ==
    /\ session[s].pc = "read"
    /\ session' = [session EXCEPT ![s] =
            [@ EXCEPT !.pc = "appended",
                      !.log = AppendedLog(@, session[s].day_number,
                                          session[s].completed_hours),
                      !.current_day = NextPointer(session[s].day_number)]]
    /\ UNCHANGED <<stored, project_request, loop, completion_log, current_day, now,
                 response>>

\* line 333, the flush: the UPDATE waits for the row another transaction wrote
WriteBack(s) ==
    /\ session[s].pc = "appended"
    /\ \A t \in Sessions : session[t].pc # "written"
    /\ session' = [session EXCEPT ![s] = [@ EXCEPT !.pc = "written"]]
    /\ UNCHANGED <<stored, project_request, loop, completion_log, current_day, now,
                 response>>

\* line 333, the commit: the row written becomes the stored row; returns True
Commit(s) ==
    /\ session[s].pc = "written"
    /\ completion_log' = session[s].log
    /\ current_day' = session[s].current_day
    /\ session' = [session EXCEPT ![s] = [@ EXCEPT !.pc = "done"]]
    /\ UNCHANGED <<stored, project_request, loop, now, response>>

InitConc ==
    /\ \E p \in {ScenarioProject, LegacyProject} : InitStored(p)
    /\ completion_log = <<>>
    /\ current_day = None
    /\ now = 0
    /\ response = NoResponse
    /\ session = [s \in Sessions |-> IdleSession]
    /\ loop = IdleLoop
    /\ project_request = DefaultRequest

NextConc ==
    \/ \E s \in Sessions, day_number \in DayNumbers, completed_hours \in HoursPayloads :
           ReadLog(s, day_number, completed_hours)
    \/ \E s \in Sessions : AppendEntry(s)
    \/ \E s \in Sessions : WriteBack(s)
    \/ \E s \in Sessions : Commit(s)

SpecConc == InitConc /\ [][NextConc]_vars

(***************************************************************************)
(* The properties.                                                         *)
(***************************************************************************)
RECURSIVE SumHours(_)
SumHours(tasks) ==
    IF tasks = <<>> THEN 0 ELSE Head(tasks).estimated_hours + SumHours(Tail(tasks))

IsPrefix(a, b) == Len(a) <= Len(b) /\ SubSeq(b, 1, Len(a)) = a

\* the entries a plan for day d may depend on
PriorEntries(log, d) ==
    LET Before(e) == e.day < d
    IN  SelectSeq(log, Before)

\* this step is a call of log_completed_tasks
LogCompletedStep ==
    /\ response'.op = "log_completed_tasks"
    /\ response' # response \/ completion_log' # completion_log

\* C1: for a fixed backlog, fixed schedule parameters and a fixed log, two
\* calls of generate_day_plan with the same project, the same start_date
\* argument and the same day number return identical plans, whether or not a
\* start date is passed or stored.
C1_Determinism ==
    [][(/\ response.op = "generate_day_plan"
        /\ response'.op = "generate_day_plan"
        /\ response'.project_id = response.project_id
        /\ response'.start_date = response.start_date
        /\ response'.day_number = response.day_number
        /\ completion_log' = completion_log
        /\ stored' = stored)
       => (response'.status = response.status /\ response'.plan = response.plan)]_vars

\* C2: in every reachable state and for every day d and start_date argument,
\* the outcome of generate_day_plan for day d is the one it has on the log
\* entries with day < d alone, so the entries with day >= d that
\* log_completed_tasks appended do not change it.
C2_ReplayInvariant ==
    \A d \in DayNumbers, start_arg \in StartArgs :
        generate_day_plan(TRUE, Project, start_arg, d, now)
            = generate_day_plan(TRUE,
                  [Project EXCEPT !.completion_log = PriorEntries(completion_log, d)],
                  start_arg, d, now)

\* C2 witness: a plan for day d was returned on a log that holds two entries,
\* one of them for a day >= d
C2_Witness ==
    /\ response.op = "generate_day_plan"
    /\ response.status = "ok"
    /\ Len(completion_log) = 2
    /\ \E i \in 1..Len(completion_log) : completion_log[i].day >= response.day_number

\* C3: a log_completed_tasks call whose day_number is not len(log) + 1 fails
\* with OutOfOrderDay and leaves the log and current_day unchanged.
C3_OutOfOrderRejected ==
    [][(/\ LogCompletedStep
        /\ Found(response'.project_id)
        /\ response'.day_number # Len(completion_log) + 1)
       => (/\ response'.status = "out_of_order"
           /\ completion_log' = completion_log
           /\ current_day' = current_day)]_vars

\* C4: a log_completed_tasks call whose day_number is the current pointer
\* (current_day, 1 when unset) succeeds, appends exactly one entry, for that
\* day, and sets current_day to day_number + 1: the pointer grows by 1.
C4_SequentialAccepted ==
    [][(/\ LogCompletedStep
        /\ Found(response'.project_id)
        /\ response'.day_number = CurrentDayOr1(current_day))
       => (/\ response'.status = "ok"
           /\ Len(completion_log') = Len(completion_log) + 1
           /\ SubSeq(completion_log', 1, Len(completion_log)) = completion_log
           /\ completion_log'[Len(completion_log')].day = response'.day_number
           /\ current_day' = <<response'.day_number + 1>>
           /\ CurrentDayOr1(current_day') = CurrentDayOr1(current_day) + 1)]_vars

\* C4 witness: days 1 and 2 were logged in order, each at the pointer
C4_Witness ==
    /\ response.op = "log_completed_tasks"
    /\ response.status = "ok"
    /\ response.day_number = 2
    /\ Len(completion_log) = 2
    /\ completion_log[1].day = 1
    /\ completion_log[2].day = 2
    /\ current_day = <<3>>

\* C5: in every reachable state current_day = len(completion_log) + 1, an
\* unset pointer counting as 1.
C5_PointerIsLogLength ==
    CurrentDayOr1(current_day) = Len(completion_log) + 1

\* C6: in every reachable state the i-th log entry carries day number i.
C6_SequentialLog ==
    \A i \in 1..Len(completion_log) : completion_log[i].day = i

C8_OneWinner ==
    /\ \A s, t \in Sessions :
          (s # t /\ session[s].pc = "done" /\ session[t].pc = "done")
              => session[s].day_number # session[t].day_number
    /\ \A i, j \in 1..Len(completion_log) :
          i # j => completion_log[i].day # completion_log[j].day

\* C9: the hours of a returned plan's tasks never exceed its planned_hours.
C9_BudgetUpperBound ==
    response.status = "ok"
        => SumHours(response.plan.tasks) <= response.plan.planned_hours

\* C9 witness: a plan of two tasks that uses a positive budget to the hour
C9_Witness ==
    /\ response.status = "ok"
    /\ Len(response.plan.tasks) = 2
    /\ response.plan.planned_hours > 0
    /\ SumHours(response.plan.tasks) = response.plan.planned_hours

\* the pending tasks of the stored project and their total estimate
PendingTasks ==
    pending_tasks_of(ParseTasks(developer_tasks), completed_tasks_of(completion_log))

PendingTotal ==
    SumHours([i \in 1..Len(PendingTasks) |-> [estimated_hours |-> EstOf(PendingTasks[i])]])

\* C10: when the pending tasks' total estimate exceeds the daily budget the
\* plan's hours equal planned_hours; they are below planned_hours only when
\* the whole pending backlog fits under the budget, and is then planned whole.
C10_BudgetEquality ==
    response.status = "ok"
        => /\ PendingTotal > response.plan.planned_hours
                => SumHours(response.plan.tasks) = response.plan.planned_hours
           /\ SumHours(response.plan.tasks) < response.plan.planned_hours
                => /\ PendingTotal < response.plan.planned_hours
                   /\ SumHours(response.plan.tasks) = PendingTotal

\* C10 witness: a backlog over a positive budget, the last planned task sliced
C10_Witness ==
    /\ response.status = "ok"
    /\ response.plan.planned_hours > 0
    /\ PendingTotal > response.plan.planned_hours
    /\ Len(response.plan.tasks) = 2
    /\ response.plan.tasks[2].estimated_hours < EstOf(PendingTasks[2])

\* the notes of the greedy pass over the stored project, which the pass keeps
\* in its list carryover_today
CarryoverToday == build_of(Project).carryover_today

\* C11: in a returned plan every pending task is named in the plan's tasks or
\* in a note of carryover_today, a pending task that is not in the plan's
\* tasks has a note with its whole estimate, and no task is left out: the
\* plan's tasks and the whole-estimate notes together are as many as the
\* pending tasks.
C11_Exhaustive ==
    response.status = "ok"
        => /\ \A i \in 1..Len(PendingTasks) :
                 \/ \E j \in 1..Len(response.plan.tasks) :
                        response.plan.tasks[j].task = PendingTasks[i].task
                 \/ \E j \in 1..Len(CarryoverToday) :
                        CarryoverToday[j] = FullNote(PendingTasks[i].task,
                                                     EstOf(PendingTasks[i]))
           /\ Len(response.plan.tasks)
                + Cardinality({j \in 1..Len(CarryoverToday) : ~CarryoverToday[j].left})
                = Len(PendingTasks)

\* C11 witness: the first task used the whole positive budget and the task
\* behind it, which got no hours, has its note
C11_Witness ==
    /\ response.status = "ok"
    /\ response.plan.planned_hours > 0
    /\ Len(PendingTasks) = 2
    /\ Len(response.plan.tasks) = 1
    /\ SumHours(response.plan.tasks) = response.plan.planned_hours
    /\ CarryoverToday[Len(CarryoverToday)]
          = FullNote(PendingTasks[2].task, EstOf(PendingTasks[2]))

\* C12: a plan returned for day 1 while the completion log is empty has an
\* empty carryover_from_previous_days.
C12_FirstDayNoCarryover ==
    (/\ response.status = "ok"
     /\ response.op \in {"generate_day_plan", "start_project_plan", "get_current_day_plan"}
     /\ response.day_number = 1
     /\ completion_log = <<>>)
        => response.plan.carryover_from_previous_days = <<>>

\* C12 witness: the day-1 plan of a project with an empty log whose pass left
\* notes of its own
C12_Witness ==
    /\ response.status = "ok"
    /\ response.op = "generate_day_plan"
    /\ response.day_number = 1
    /\ completion_log = <<>>
    /\ response.plan.tasks # <<>>
    /\ CarryoverToday # <<>>

\* C13: for the backlog Design 5 h, Build 10 h, Test 3 h, a budget of 4 hours
\* and an empty log, the day-1 plan's tasks are Design for 4 hours alone and
\* the pass's notes read "Design (1 hour(s) left)", "Build (10 hour(s))",
\* "Test (3 hour(s))", in that order.
C13_Scenario ==
    (/\ response.status = "ok"
     /\ response.op \in {"generate_day_plan", "start_project_plan", "get_current_day_plan"}
     /\ response.day_number = 1
     /\ completion_log = <<>>
     /\ developer_tasks = <<DictTask("Design", 5), DictTask("Build", 10), DictTask("Test", 3)>>
     /\ response.plan.planned_hours = 4)
        => /\ response.plan.tasks = <<[task |-> "Design", estimated_hours |-> 4]>>
           /\ [i \in 1..Len(CarryoverToday) |-> NoteText(CarryoverToday[i])]
                = << <<"Design", " (", 1, " hour(s) left)">>,
                     <<"Build", " (", 10, " hour(s))">>,
                     <<"Test", " (", 3, " hour(s))">> >>

\* C13 witness: the day-1 plan of that project was returned on an empty log
C13_Witness ==
    /\ response.status = "ok"
    /\ response.op = "start_project_plan"
    /\ response.day_number = 1
    /\ completion_log = <<>>
    /\ developer_tasks = <<DictTask("Design", 5), DictTask("Build", 10), DictTask("Test", 3)>>
    /\ response.plan.planned_hours = 4
    /\ Len(response.plan.tasks) = 1

\* C14: whatever log_completed_tasks calls were made and whatever their
\* completed_hours, the tasks of the plan for any day are the tasks planned
\* on an empty log: a plan just returned has them, and so has the plan of
\* every day that could be asked for next.
C14_CompletionInert ==
    LET Fresh == [Project EXCEPT !.completion_log = <<>>]
    IN  /\ (response.status = "ok" /\ response.op # "log_completed_tasks")
              => response.plan.tasks = build_of(Fresh).tasks
        /\ \A d \in DayNumbers :
              LET logged == generate_day_plan(TRUE, Project, None, d, now)
                  fresh == generate_day_plan(TRUE, Fresh, None, d, now)
              IN  /\ logged.status = fresh.status
                  /\ logged.plan.tasks = fresh.plan.tasks

\* C14 witness: day 1 was logged with Design done for its whole estimate of 5
\* hours, and the plan returned for day 2 offers Design for 4 hours again
C14_Witness ==
    /\ response.op = "log_daily_tasks"
    /\ response.status = "ok"
    /\ response.day_number = 1
    /\ response.completed_hours = {<<"Design", 5>>}
    /\ Len(completion_log) = 1
    /\ completion_log[1].completed_hours = {<<"Design", 5>>}
    /\ response.plan.day = <<"Day", 2>>
    /\ response.plan.tasks[1] = [task |-> "Design", estimated_hours |-> 4]

\* the start date a returned plan was computed from
StartOfResponse == ResolveStart(response.start_date, start_date, now)

\* C15: with the start on Monday 2024-01-01 and 5 working days per week, the
\* plan for day 6 is dated 2024-01-08, a Monday, and no day's plan is dated
\* Saturday 2024-01-06 or Sunday 2024-01-07.
C15_CalendarScenario ==
    (/\ response.status = "ok"
     /\ StartOfResponse = 0
     /\ working_days_of(total_duration_days) = 5)
        => /\ response.day_number = 6
                => /\ response.plan.date = <<2024, 1, 8>>
                   /\ response.plan.message
                        = <<"Plan for Day", 6, "Monday", "January", 8, 2024>>
           /\ response.plan.date \notin {<<2024, 1, 6>>, <<2024, 1, 7>>}

\* C15 witness: the plan for day 6 of a project started on 2024-01-01 with a
\* stored "5 d"
C15_Witness ==
    /\ response.status = "ok"
    /\ response.day_number = 6
    /\ start_date = Some(0)
    /\ total_duration_days = StrValue(<<"5", " ", "d">>)
    /\ response.plan.day = <<"Day", 6>>

\* a step that is a call of one of the three planning operations
PlanStep ==
    /\ response' # response
    /\ response'.op \in {"generate_day_plan", "start_project_plan", "get_current_day_plan"}

\* C16: a step of start_project_plan, generate_day_plan or
\* get_current_day_plan leaves completion_log and current_day as they were,
\* and the log gets an entry only in a step of log_completed_tasks (alone or
\* inside log_daily_tasks).
C16_PlanningReadOnly ==
    [][/\ PlanStep => (completion_log' = completion_log /\ current_day' = current_day)
       /\ Len(completion_log') # Len(completion_log)
            => response'.op \in {"log_completed_tasks", "log_daily_tasks"}]_vars

\* C16 witness: the current plan was returned after one day was logged, and
\* the log and the pointer are the ones that call left
C16_Witness ==
    /\ response.op = "get_current_day_plan"
    /\ response.status = "ok"
    /\ response.day_number = 2
    /\ Len(completion_log) = 1
    /\ current_day = Some(2)

\* C17: a call of any scheduler operation for a project id that is not
\* stored fails with "Project not found", returns no plan and leaves the
\* stored project, its log and its pointer as they were.
C17_NotFound ==
    [][(/\ response' # response
        /\ response'.project_id \in ProjectIds \ StoredIds)
       => (/\ response'.status = "not_found"
           /\ response'.plan = NoPlan
           /\ stored' = stored
           /\ completion_log' = completion_log
           /\ current_day' = current_day)]_vars

\* C17 witness: log_completed_tasks was called for an id that is not stored
\* after a day had been logged for the stored project
C17_Witness ==
    /\ response.op = "log_completed_tasks"
    /\ response.project_id = 2
    /\ response.status = "not_found"
    /\ Len(completion_log) = 1
    /\ current_day = Some(2)

\* C18: the plan log_daily_tasks returned (the plan for day_number + 1 on the
\* log with the new entry) is the plan get_current_day_plan returns when it
\* is the next call for that project.
C18_LogDayIsCurrentPlan ==
    [][(/\ response.op = "log_daily_tasks"
        /\ response'.op = "get_current_day_plan"
        /\ response'.project_id = response.project_id)
       => (/\ response'.status = response.status
           /\ response'.plan = response.plan)]_vars

\* C19: a returned plan's planned_hours, which is the budget the pass
\* consumed, is the daily_hours the project was created with, and its date is
\* the one the calendar gives for the working_days_per_week it was created
\* with.
C19_RequestParameters ==
    (response.status = "ok" /\ response.op # "log_completed_tasks")
        => /\ response.plan.planned_hours = project_request.daily_hours
           /\ response.plan.date
                = IsoDate(date_for_day(StartOfResponse, response.day_number,
                                       project_request.working_days_per_week))

\* C20: no step changes the stored backlog, the stored schedule fields or the
\* start date, and a step that changes completion_log or current_day is a
\* step of log_completed_tasks (alone or inside log_daily_tasks) for the
\* stored project.
C20_SoleMutationPath ==
    [][/\ stored' = stored
       /\ (completion_log' # completion_log \/ current_day' # current_day)
            => /\ response'.op \in {"log_completed_tasks", "log_daily_tasks"}
               /\ Found(response'.project_id)
               /\ completion_log' = Append(completion_log, completion_log'[Len(completion_log')])
               /\ current_day' = Some(response'.day_number + 1)]_vars

\* C20 witness: two days were logged with hours for Design, a plan was asked
\* for afterwards, and the backlog still holds Design
C20_Witness ==
    /\ Len(completion_log) = 2
    /\ completion_log[1].completed_hours = {<<"Design", 5>>}
    /\ current_day = Some(3)
    /\ response.op = "generate_day_plan"
    /\ response.status = "ok"
    /\ developer_tasks = ScenarioProject.developer_tasks
    /\ base_hours_required = ScenarioProject.base_hours_required

\* the dates strictly after start, up to date d, whose weekday index is below
\* working_days_per_week
WorkingDatesAfter(start, d, working_days_per_week) ==
    {e \in (start + 1)..d : weekday(e) < working_days_per_week}

\* C21: for every start date, every working_days_per_week in 1..7 and every
\* day_number N >= 1 a returned plan is dated the start date when N = 1, and
\* otherwise the (N-1)-th date after the start date whose weekday index is
\* below working_days_per_week, whether or not the start date is such a date.
C21_CalendarAdvancer ==
    LET wd == working_days_of(total_duration_days)
        N == response.day_number
    IN  (response.status = "ok" /\ wd \in 1..7)
            => \E d \in StartOfResponse..(StartOfResponse + 7 * N) :
                  /\ response.plan.date = IsoDate(d)
                  /\ N = 1 => d = StartOfResponse
                  /\ N > 1 => /\ weekday(d) < wd
                              /\ Cardinality(WorkingDatesAfter(StartOfResponse, d, wd))
                                    = N - 1

\* C21 witness: the start date is Saturday 2024-01-06, the week has 5 working
\* days, and the plan for day 2 is dated Monday 2024-01-08
C21_Witness ==
    /\ response.status = "ok"
    /\ response.start_date = None
    /\ start_date = Some(5)
    /\ working_days_of(total_duration_days) = 5
    /\ response.day_number = 2
    /\ response.plan.date = <<2024, 1, 8>>

\* C22: for every day_number >= 1 and every working_days_per_week extract_int
\* reads from the stored field, a call that enters the calendar loop leaves it
\* by its condition, with the date of the day.
C22_LoopTerminates ==
    (loop.pc = "loop") ~> (loop.pc = "done")

\* the estimates of the first n pending tasks, summed
PendingBefore(n) ==
    SumHours([i \in 1..n |-> [estimated_hours |-> EstOf(PendingTasks[i])]])

\* C23: when the budget left in front of a pending task is positive and below
\* the task's estimate, the task is in the plan with exactly the hours left,
\* exactly one note states its remainder, hours planned + hours noted = its
\* estimate, and the plan's hours add up to planned_hours.
C23_PartialSlice ==
    (response.status = "ok" /\ response.op # "log_completed_tasks")
        => \A i \in 1..Len(PendingTasks) :
              LET t == PendingTasks[i]
                  hours_left == response.plan.planned_hours - PendingBefore(i - 1)
                  notes == {j \in 1..Len(CarryoverToday) : CarryoverToday[j].left}
              IN  (hours_left > 0 /\ EstOf(t) > hours_left)
                      => /\ response.plan.tasks[i]
                              = [task |-> t.task, estimated_hours |-> hours_left]
                         /\ Cardinality(notes) = 1
                         /\ \A j \in notes :
                               /\ CarryoverToday[j].task = t.task
                               /\ response.plan.tasks[i].estimated_hours
                                    + CarryoverToday[j].hours = EstOf(t)
                         /\ SumHours(response.plan.tasks) = response.plan.planned_hours

\* C23 witness: a budget of 2 hours in front of a first task of 3 hours, which
\* is planned for 2 hours with 1 hour noted
C23_Witness ==
    /\ response.status = "ok"
    /\ response.plan.planned_hours = 2
    /\ PendingTasks # <<>>
    /\ EstOf(PendingTasks[1]) = 3
    /\ response.plan.tasks[1].estimated_hours = 2
    /\ CarryoverToday[1] = LeftNote(PendingTasks[1].task, 1)

\* C24: when every pending task has a positive estimate, the plan's tasks are
\* the first tasks of the pending list, in its order, each with its whole
\* estimate except possibly the last one, which has a positive part of it.
C24_BacklogOrder ==
    (/\ response.status = "ok"
     /\ response.op # "log_completed_tasks"
     /\ \A i \in 1..Len(PendingTasks) : EstOf(PendingTasks[i]) > 0)
        => LET tasks == response.plan.tasks
               n == Len(tasks)
           IN  /\ n <= Len(PendingTasks)
               /\ \A j \in 1..n :
                     /\ tasks[j].task = PendingTasks[j].task
                     /\ tasks[j].estimated_hours > 0
                     /\ tasks[j].estimated_hours <= EstOf(PendingTasks[j])
                     /\ j < n => tasks[j].estimated_hours = EstOf(PendingTasks[j])

\* C24 witness: two pending tasks of different names with positive estimates,
\* the first one sliced and the second one left out of the plan
C24_Witness ==
    /\ response.status = "ok"
    /\ Len(PendingTasks) = 2
    /\ PendingTasks[1].task # PendingTasks[2].task
    /\ \A i \in 1..2 : EstOf(PendingTasks[i]) > 0
    /\ Len(response.plan.tasks) = 1
    /\ response.plan.tasks[1].task = PendingTasks[1].task
    /\ response.plan.tasks[1].estimated_hours < EstOf(PendingTasks[1])

\* C25: every pending task with an estimate of 0 hours is in the plan with 0
\* hours, no note is about 0 hours, and the tasks with hours in the plan are
\* the ones planned when the zero-hour tasks are taken out of the pending
\* list: the zero-hour tasks use no budget.
C25_ZeroHourTask ==
    (response.status = "ok" /\ response.op # "log_completed_tasks")
        => LET tasks == response.plan.tasks
               ZeroPending == {i \in 1..Len(PendingTasks) : EstOf(PendingTasks[i]) = 0}
               ZeroPlanned == {j \in 1..Len(tasks) : tasks[j].estimated_hours = 0}
               HasEstimate(t) == EstOf(t) > 0
               HasHours(e) == e.estimated_hours > 0
           IN  /\ Cardinality(ZeroPlanned) = Cardinality(ZeroPending)
               /\ \A i \in ZeroPending : \E j \in ZeroPlanned :
                     tasks[j].task = PendingTasks[i].task
               /\ \A j \in 1..Len(CarryoverToday) : CarryoverToday[j].hours > 0
               /\ SelectSeq(tasks, HasHours)
                    = build(SelectSeq(PendingTasks, HasEstimate),
                            response.plan.planned_hours).tasks

\* C25 witness: the first pending task used up a positive budget and the
\* zero-hour task behind it is in the plan with 0 hours
C25_Witness ==
    /\ response.status = "ok"
    /\ response.plan.planned_hours > 0
    /\ Len(PendingTasks) = 2
    /\ EstOf(PendingTasks[1]) > response.plan.planned_hours
    /\ EstOf(PendingTasks[2]) = 0
    /\ Len(response.plan.tasks) = 2
    /\ response.plan.tasks[2] = [task |-> PendingTasks[2].task, estimated_hours |-> 0]

\* C26: no task of a returned plan and no note of the pass names a task that
\* some log entry lists in its completed_tasks, and the pending list is the
\* backlog without those tasks, in backlog order.
C26_CompletedNotScheduled ==
    (response.status = "ok" /\ response.op # "log_completed_tasks")
        => LET backlog == ParseTasks(developer_tasks)
               done ==
                   UNION {{completion_log[i].completed_tasks[j].task :
                             j \in 1..Len(completion_log[i].completed_tasks)} :
                          i \in 1..Len(completion_log)}
               keep == {i \in 1..Len(backlog) : backlog[i].task \notin done}
               Kth(k) == CHOOSE i \in keep : Cardinality({m \in keep : m <= i}) = k
           IN  /\ \A j \in 1..Len(response.plan.tasks) :
                     response.plan.tasks[j].task \notin done
               /\ \A j \in 1..Len(CarryoverToday) : CarryoverToday[j].task \notin done
               /\ Len(PendingTasks) = Cardinality(keep)
               /\ \A k \in 1..Len(PendingTasks) : PendingTasks[k] = backlog[Kth(k)]

\* C26 witness: the log lists Design as completed, the backlog is Design then
\* Build, and the plan holds Build alone
C26_Witness ==
    /\ response.status = "ok"
    /\ \E i \in 1..Len(completion_log) :
          completion_log[i].completed_tasks = <<[task |-> "Design"]>>
    /\ Len(developer_tasks) = 2
    /\ developer_tasks[1].task = "Design"
    /\ developer_tasks[2].task = "Build"
    /\ Len(response.plan.tasks) = 1
    /\ response.plan.tasks[1].task = "Build"

\* a stored backlog the normalizer is to refuse: an entry that is neither a
\* str nor a dict, an estimated_hours that is not positive, or a description
\* that two entries share
MalformedBacklog ==
    \/ \E i \in 1..Len(developer_tasks) : developer_tasks[i].kind \notin {"str", "dict"}
    \/ \E i \in 1..Len(developer_tasks) :
          /\ ~IsNone(developer_tasks[i].est)
          /\ developer_tasks[i].est[1] <= 0
    \/ \E i, j \in 1..Len(developer_tasks) :
          i # j /\ developer_tasks[i].task = developer_tasks[j].task

\* C27: a call of generate_day_plan on a project whose stored backlog is
\* malformed fails and returns no plan.
C27_MalformedRejected ==
    (response.op # "none" /\ MalformedBacklog)
        => (response.status = "error" /\ response.plan = NoPlan)

\* C28: a step after which the caller of log_daily_tasks holds an error
\* leaves completion_log and current_day as they were before it.
C28_LogDayAllOrNothing ==
    [][(response'.op = "log_daily_tasks" /\ response'.status # "ok")
       => (completion_log' = completion_log /\ current_day' = current_day)]_vars

\* C29: under every interleaving of the two calls, each call that has
\* committed and returned True has its entry in the stored log, and the log,
\* empty at the start, is as long as the number of such calls.
C29_NoLostUpdate ==
    LET Done == {s \in Sessions : session[s].pc = "done"}
    IN  /\ Len(completion_log) = Cardinality(Done)
        /\ \A s \in Done : \E i \in 1..Len(completion_log) :
              completion_log[i] = LogEntry(session[s].day_number,
                                           session[s].completed_hours)

\* C30: every entry of the stored log has empty completed_tasks and an empty
\* carryover, and carryover_from_previous_days is empty in every returned
\* plan and in the plan of every day.
C30_PlaceholderEntries ==
    /\ \A i \in 1..Len(completion_log) :
          /\ completion_log[i].completed_tasks = <<>>
          /\ completion_log[i].carryover = <<>>
    /\ (response.status = "ok" /\ response.op # "log_completed_tasks")
          => response.plan.carryover_from_previous_days = <<>>
    /\ \A d \in 1..(MaxDay + 1) :
          generate_day_plan(TRUE, Project, None, d, now).plan
              .carryover_from_previous_days = <<>>

\* C30 witness: two days were logged, the second with hours for Design,
\* nothing of which is in the current plan's carryover
C30_Witness ==
    /\ response.op = "get_current_day_plan"
    /\ response.status = "ok"
    /\ Len(completion_log) = 2
    /\ completion_log[2].completed_hours = {<<"Design", 5>>}
    /\ response.plan.tasks # <<>>
    /\ response.plan.carryover_from_previous_days = <<>>

====
